---- MODULE Spec2Model ----
(***************************************************************************)
(* Offering builder wizard: the OfferingState store (wizard navigation,    *)
(* offering type, detail fields, pricing tiers, images) and the component  *)
(* operations that drive it (Tiers, Details, Images, App).                 *)
(*                                                                         *)
(* Every signal of the store is a variable.  JavaScript null is the string *)
(* "null" for string-valued signals and the empty sequence for object-     *)
(* valued ones (an optional object is a sequence of length 0 or 1).        *)
(***************************************************************************)
EXTENDS Integers, Sequences, FiniteSets, TLC

VARIABLES
    INITIAL_STEPS,          \* the template array of step objects
    steps,                  \* signal<Step[]>
    stepsShared,            \* positions i where steps[i] is the very object INITIAL_STEPS[i]
    currentStep,            \* signal<number>
    selectedOfferingType,   \* signal<OfferingType>
    companyType,            \* signal<CompanyType>
    selectedCategories,     \* signal<Category[]>
    suggestedOffering,      \* signal<OfferingType>
    offeringName,           \* signal<string>
    tagline,                \* signal<string>
    keyFeatures,            \* signal<string[]>
    offeringDescription,    \* signal<string>
    tags,                   \* signal<string[]>
    tiers,                  \* signal<Tier[]>
    selectedTierId,         \* signal<string | null>
    thumbnailImage,         \* signal<OfferingImage | null>
    galleryImages,          \* signal<OfferingImage[]>
    fallbackColor,          \* signal<FallbackColor>
    now,                    \* the value Date.now() returns
    sessionMarker,          \* sessionStorage['offering_wizard_session']: "active" or null
    appPhase,               \* the page: "constructed", "running", "unloaded" or "reloaded"
    readers,                \* the FileReader reads in flight, in the order they were started
    readsStarted,           \* how many reads have been started so far
    rejected,               \* history: the images as they were when an upload was last refused
    lastOp                  \* history: the operation that produced this state, its arguments,
                            \* and what it found (op, n, s)

navVars    == <<INITIAL_STEPS, steps, stepsShared, currentStep>>
typeVars   == <<selectedOfferingType, companyType, selectedCategories, suggestedOffering>>
detailVars == <<offeringName, tagline, keyFeatures, offeringDescription, tags>>
tierVars   == <<tiers, selectedTierId>>
imageVars  == <<thumbnailImage, galleryImages, fallbackColor>>
envVars    == <<now, sessionMarker, appPhase>>
uploadVars == <<readers, readsStarted, rejected>>
vars == <<navVars, typeVars, detailVars, tierVars, imageVars, envVars, uploadVars, lastOp>>

(***************************************************************************)
(* Program constants and the bounds of the model                           *)
(***************************************************************************)
TOTAL_STEPS == 4
FIRST_STEP == 1

\* step numbers offered to setCurrentStep / completeStep reach this far outside 1..4
StepMargin == 2
\* Date.now() runs from 0 to MaxClock
MaxClock == 1
\* addCustomTier is offered while tiers is shorter than this
MaxTiers == 2
\* keyFeatures, tags and galleryImages grow to at most this length
MaxList == 1
\* keyFeatures and tags grow to at most this length where elements are removed
MaxItems == 3
\* uploads are offered until this many reads have been started
MaxReads == 2

null == "null"

StepNumbers == (FIRST_STEP - StepMargin)..(TOTAL_STEPS + StepMargin)
OfferingTypes == {"product", "service", "subscription"}
BillingTypes == {"per-project", "hourly", "monthly-retainer", "fixed-price"}
FallbackColors == {"burgundy", "orange", "green", "magenta", "gray"}

\* p and v name the property and the value of an updateTierProperty call
Op(name, n, s) == [op |-> name, n |-> n, s |-> s, p |-> "", v |-> ""]

(***************************************************************************)
(* Wizard navigation                                                       *)
(***************************************************************************)
InitialSteps ==
    << [id |-> 1, label |-> "Offering Type", completed |-> FALSE],
       [id |-> 2, label |-> "Details",       completed |-> FALSE],
       [id |-> 3, label |-> "Tiers",         completed |-> FALSE],
       [id |-> 4, label |-> "Images",        completed |-> FALSE] >>

\* setCurrentStep without the upper range check
SetCurrentStepNoUpper(cur, stepNumber) ==
    IF stepNumber >= FIRST_STEP THEN stepNumber ELSE cur

\* setCurrentStep that clamps an out-of-range number to the nearest step
SetCurrentStepClamped(cur, stepNumber) ==
    IF stepNumber < FIRST_STEP THEN FIRST_STEP
    ELSE IF stepNumber > TOTAL_STEPS THEN TOTAL_STEPS
    ELSE stepNumber

\* the value of currentStep after setCurrentStep(stepNumber)
SetCurrentStepTo(cur, stepNumber) ==
    IF stepNumber >= FIRST_STEP /\ stepNumber <= TOTAL_STEPS THEN stepNumber ELSE cur

\* completeStep that marks every step up to stepId
CompleteStepUpTo(allSteps, stepId) ==
    [i \in DOMAIN allSteps |->
        IF allSteps[i].id <= stepId
        THEN [allSteps[i] EXCEPT !.completed = TRUE]
        ELSE allSteps[i]]

\* allSteps.map(step => step.id === stepId ? { ...step, completed: true } : step)
CompleteStepIn(allSteps, stepId) ==
    [i \in DOMAIN allSteps |->
        IF allSteps[i].id = stepId
        THEN [allSteps[i] EXCEPT !.completed = TRUE]
        ELSE allSteps[i]]

\* the positions still holding the template's own objects after completeStep(stepId):
\* the spread { ...step } makes a new object for every matching step
SharedAfterComplete(allSteps, shared, stepId) ==
    {i \in shared : allSteps[i].id # stepId}

setCurrentStep(stepNumber) ==
    /\ currentStep' = SetCurrentStepTo(currentStep, stepNumber)
    /\ lastOp' = Op("setCurrentStep", stepNumber, "")
    /\ UNCHANGED <<INITIAL_STEPS, steps, stepsShared>>
    /\ UNCHANGED <<typeVars, detailVars, tierVars, imageVars, envVars, uploadVars>>

\* a completeStep that sets the flag on the step objects themselves: the objects
\* still shared with the template change in the template too
completeStepInPlace(stepId) ==
    /\ steps' = CompleteStepIn(steps, stepId)
    /\ INITIAL_STEPS' = [i \in DOMAIN INITIAL_STEPS |->
                            IF i \in stepsShared /\ INITIAL_STEPS[i].id = stepId
                            THEN [INITIAL_STEPS[i] EXCEPT !.completed = TRUE]
                            ELSE INITIAL_STEPS[i]]
    /\ lastOp' = Op("completeStep", stepId, "")
    /\ UNCHANGED <<stepsShared, currentStep>>
    /\ UNCHANGED <<typeVars, detailVars, tierVars, imageVars, envVars, uploadVars>>

completeStep(stepId) ==
    /\ steps' = CompleteStepIn(steps, stepId)
    /\ stepsShared' = SharedAfterComplete(steps, stepsShared, stepId)
    /\ lastOp' = Op("completeStep", stepId, "")
    /\ UNCHANGED <<INITIAL_STEPS, currentStep>>
    /\ UNCHANGED <<typeVars, detailVars, tierVars, imageVars, envVars, uploadVars>>

\* a nextStep that moves on without marking the step it leaves
nextStepWithoutCompleting ==
    /\ IF currentStep < TOTAL_STEPS
       THEN currentStep' = SetCurrentStepTo(currentStep, currentStep + 1)
       ELSE UNCHANGED currentStep
    /\ lastOp' = Op("nextStep", currentStep, "")
    /\ UNCHANGED <<INITIAL_STEPS, steps, stepsShared>>
    /\ UNCHANGED <<typeVars, detailVars, tierVars, imageVars, envVars, uploadVars>>

nextStep ==
    /\ IF currentStep < TOTAL_STEPS
       THEN /\ steps' = CompleteStepIn(steps, currentStep)
            /\ stepsShared' = SharedAfterComplete(steps, stepsShared, currentStep)
            /\ currentStep' = SetCurrentStepTo(currentStep, currentStep + 1)
       ELSE UNCHANGED <<steps, stepsShared, currentStep>>
    /\ lastOp' = Op("nextStep", currentStep, "")
    /\ UNCHANGED INITIAL_STEPS
    /\ UNCHANGED <<typeVars, detailVars, tierVars, imageVars, envVars, uploadVars>>

\* previousStep that takes back the completed flag of the step it returns to
previousStepUncompletes ==
    /\ IF currentStep > FIRST_STEP
       THEN /\ currentStep' = SetCurrentStepTo(currentStep, currentStep - 1)
            /\ steps' = [i \in DOMAIN steps |->
                            IF steps[i].id = currentStep - 1
                            THEN [steps[i] EXCEPT !.completed = FALSE]
                            ELSE steps[i]]
       ELSE UNCHANGED <<currentStep, steps>>
    /\ lastOp' = Op("previousStep", currentStep, "")
    /\ UNCHANGED <<INITIAL_STEPS, stepsShared>>
    /\ UNCHANGED <<typeVars, detailVars, tierVars, imageVars, envVars, uploadVars>>

previousStep ==
    /\ IF currentStep > FIRST_STEP
       THEN currentStep' = SetCurrentStepTo(currentStep, currentStep - 1)
       ELSE UNCHANGED currentStep
    /\ lastOp' = Op("previousStep", currentStep, "")
    /\ UNCHANGED <<INITIAL_STEPS, steps, stepsShared>>
    /\ UNCHANGED <<typeVars, detailVars, tierVars, imageVars, envVars, uploadVars>>

setOfferingType(offeringType) ==
    /\ selectedOfferingType' = offeringType
    /\ lastOp' = Op("setOfferingType", 0, offeringType)
    /\ UNCHANGED <<companyType, selectedCategories, suggestedOffering>>
    /\ UNCHANGED <<navVars, detailVars, tierVars, imageVars, envVars, uploadVars>>

\* suggestedOffering is a public writable signal; only reset writes it in the store
setSuggestedOffering(offeringType) ==
    /\ suggestedOffering' = offeringType
    /\ lastOp' = Op("setSuggestedOffering", 0, offeringType)
    /\ UNCHANGED <<selectedOfferingType, companyType, selectedCategories>>
    /\ UNCHANGED <<navVars, detailVars, tierVars, imageVars, envVars, uploadVars>>

(***************************************************************************)
(* Offering detail fields                                                  *)
(***************************************************************************)
TextValues == {"", "Consulting"}

setOfferingName(value) ==
    /\ offeringName' = value
    /\ lastOp' = Op("setOfferingName", 0, value)
    /\ UNCHANGED <<tagline, keyFeatures, offeringDescription, tags>>
    /\ UNCHANGED <<navVars, typeVars, tierVars, imageVars, envVars, uploadVars>>

setTagline(value) ==
    /\ tagline' = value
    /\ lastOp' = Op("setTagline", 0, value)
    /\ UNCHANGED <<offeringName, keyFeatures, offeringDescription, tags>>
    /\ UNCHANGED <<navVars, typeVars, tierVars, imageVars, envVars, uploadVars>>

setOfferingDescription(value) ==
    /\ offeringDescription' = value
    /\ lastOp' = Op("setOfferingDescription", 0, value)
    /\ UNCHANGED <<offeringName, tagline, keyFeatures, tags>>
    /\ UNCHANGED <<navVars, typeVars, tierVars, imageVars, envVars, uploadVars>>

\* a filter that counts positions from 1
FilterOutIndexFromOne(list, removeIndex) ==
    LET keep == {i \in 1..Len(list) : i # removeIndex}
        F[i \in 0..Len(list)] ==
            IF i = 0 THEN <<>>
            ELSE IF i \in keep THEN Append(F[i - 1], list[i]) ELSE F[i - 1]
    IN  F[Len(list)]

\* list.filter((_, index) => index !== removeIndex), with 0-based removeIndex
FilterOutIndex(list, removeIndex) ==
    LET keep == {i \in 1..Len(list) : i - 1 # removeIndex}
        F[i \in 0..Len(list)] ==
            IF i = 0 THEN <<>>
            ELSE IF i \in keep THEN Append(F[i - 1], list[i]) ELSE F[i - 1]
    IN  F[Len(list)]

addKeyFeature ==
    /\ keyFeatures' = Append(keyFeatures, "")
    /\ lastOp' = Op("addKeyFeature", 0, "")
    /\ UNCHANGED <<offeringName, tagline, offeringDescription, tags>>
    /\ UNCHANGED <<navVars, typeVars, tierVars, imageVars, envVars, uploadVars>>

removeKeyFeature(featureIndex) ==
    /\ keyFeatures' = FilterOutIndex(keyFeatures, featureIndex)
    /\ lastOp' = Op("removeKeyFeature", featureIndex, "")
    /\ UNCHANGED <<offeringName, tagline, offeringDescription, tags>>
    /\ UNCHANGED <<navVars, typeVars, tierVars, imageVars, envVars, uploadVars>>

\* currentFeatures[featureIndex] = newValue, for an index of the list
updateKeyFeature(featureIndex, newValue) ==
    /\ featureIndex \in 0..(Len(keyFeatures) - 1)
    /\ keyFeatures' = [keyFeatures EXCEPT ![featureIndex + 1] = newValue]
    /\ lastOp' = Op("updateKeyFeature", featureIndex, newValue)
    /\ UNCHANGED <<offeringName, tagline, offeringDescription, tags>>
    /\ UNCHANGED <<navVars, typeVars, tierVars, imageVars, envVars, uploadVars>>

addTag ==
    /\ tags' = Append(tags, "New Tag")
    /\ lastOp' = Op("addTag", 0, "")
    /\ UNCHANGED <<offeringName, tagline, keyFeatures, offeringDescription>>
    /\ UNCHANGED <<navVars, typeVars, tierVars, imageVars, envVars, uploadVars>>

removeTag(tagIndex) ==
    /\ tags' = FilterOutIndex(tags, tagIndex)
    /\ lastOp' = Op("removeTag", tagIndex, "")
    /\ UNCHANGED <<offeringName, tagline, keyFeatures, offeringDescription>>
    /\ UNCHANGED <<navVars, typeVars, tierVars, imageVars, envVars, uploadVars>>

updateTag(tagIndex, newValue) ==
    /\ tagIndex \in 0..(Len(tags) - 1)
    /\ tags' = [tags EXCEPT ![tagIndex + 1] = newValue]
    /\ lastOp' = Op("updateTag", tagIndex, newValue)
    /\ UNCHANGED <<offeringName, tagline, keyFeatures, offeringDescription>>
    /\ UNCHANGED <<navVars, typeVars, tierVars, imageVars, envVars, uploadVars>>

(***************************************************************************)
(* Images                                                                  *)
(***************************************************************************)
FileNames == {"logo.png"}

\* the OfferingImage a reader's onload builds: id is the role prefix plus Date.now()
ImageOf(prefix, fileName, time) ==
    [id |-> prefix \o ToString(time), url |-> "data:" \o fileName, file |-> fileName]

\* a refused upload's history entry, once some other call has written the images
Written(history) ==
    IF history = <<>> THEN history ELSE <<[history[1] EXCEPT !.written = TRUE]>>

\* image is an optional OfferingImage: <<>> for null
setThumbnailImage(image) ==
    /\ thumbnailImage' = image
    /\ rejected' = Written(rejected)
    /\ lastOp' = Op("setThumbnailImage", Len(image), IF image = <<>> THEN null ELSE image[1].id)
    /\ UNCHANGED <<galleryImages, fallbackColor, readers, readsStarted>>
    /\ UNCHANGED <<navVars, typeVars, detailVars, tierVars, envVars>>

\* a gallery that puts the newest image first
PrependImage(currentImages, image) == <<image>> \o currentImages

AppendImage(currentImages, image) == Append(currentImages, image)

addGalleryImage(image) ==
    /\ galleryImages' = AppendImage(galleryImages, image)
    /\ rejected' = Written(rejected)
    /\ lastOp' = Op("addGalleryImage", 0, image.id)
    /\ UNCHANGED <<thumbnailImage, fallbackColor, readers, readsStarted>>
    /\ UNCHANGED <<navVars, typeVars, detailVars, tierVars, envVars>>

removeGalleryImage(imageId) ==
    /\ galleryImages' = SelectSeq(galleryImages, LAMBDA img : img.id # imageId)
    /\ rejected' = Written(rejected)
    /\ lastOp' = Op("removeGalleryImage", 0, imageId)
    /\ UNCHANGED <<thumbnailImage, fallbackColor, readers, readsStarted>>
    /\ UNCHANGED <<navVars, typeVars, detailVars, tierVars, envVars>>

setFallbackColor(color) ==
    /\ fallbackColor' = color
    /\ lastOp' = Op("setFallbackColor", 0, color)
    /\ UNCHANGED <<thumbnailImage, galleryImages>>
    /\ UNCHANGED <<navVars, typeVars, detailVars, tierVars, envVars, uploadVars>>

(***************************************************************************)
(* Images component: uploads read the file asynchronously                  *)
(***************************************************************************)
\* the files a user may pick: name and MIME type
Files ==
    { [name |-> "logo.png",   type |-> "image/png"],
      [name |-> "photo.jpg",  type |-> "image/jpeg"],
      [name |-> "anim.gif",   type |-> "image/gif"],
      [name |-> "notes.txt",  type |-> "text/plain"] }

validTypes == {"image/png", "image/jpeg", "image/jpg", "image/webp"}

\* a validation that lets every image/* type through
isValidImageFileAnyImage(file) == file.type # "text/plain"

isValidImageFile(file) == file.type \in validTypes

\* what the history keeps of a refused upload: the images as they were
Refusal(role) ==
    <<[role |-> role, thumbnail |-> thumbnailImage, gallery |-> galleryImages, written |-> FALSE]>>

\* new FileReader(), onload registered, readAsDataURL(file): the read is in flight.
\* outlived is history: it turns true when reset() is called during the read
uploadThumbnail(file) ==
    /\ readsStarted < MaxReads
    /\ IF isValidImageFile(file)
       THEN /\ readers' = Append(readers, [role |-> "thumbnail", file |-> file.name, outlived |-> FALSE])
            /\ readsStarted' = readsStarted + 1
       ELSE UNCHANGED <<readers, readsStarted>>
    /\ rejected' = IF file.type \in validTypes THEN rejected ELSE Refusal("thumbnail")
    /\ lastOp' = Op("uploadThumbnail", 0, file.type)
    /\ UNCHANGED <<navVars, typeVars, detailVars, tierVars, imageVars, envVars>>

uploadGalleryImage(file) ==
    /\ readsStarted < MaxReads
    /\ IF isValidImageFile(file)
       THEN /\ readers' = Append(readers, [role |-> "gallery", file |-> file.name, outlived |-> FALSE])
            /\ readsStarted' = readsStarted + 1
       ELSE UNCHANGED <<readers, readsStarted>>
    /\ rejected' = IF file.type \in validTypes THEN rejected ELSE Refusal("gallery")
    /\ lastOp' = Op("uploadGalleryImage", 0, file.type)
    /\ UNCHANGED <<navVars, typeVars, detailVars, tierVars, imageVars, envVars>>

\* readers without the one at position index
WithoutReader(index) == SubSeq(readers, 1, index - 1) \o SubSeq(readers, index + 1, Len(readers))

\* the onload of the read at position index fires: any read in flight may finish next
thumbnailLoaded(index) ==
    /\ index \in DOMAIN readers
    /\ readers[index].role = "thumbnail"
    /\ thumbnailImage' = <<ImageOf("thumbnail-", readers[index].file, now)>>
    /\ readers' = WithoutReader(index)
    /\ rejected' = <<>>
    /\ lastOp' = [Op("thumbnailLoaded", index, readers[index].file) EXCEPT
                      !.p = IF readers[index].outlived THEN "after-reset" ELSE ""]
    /\ UNCHANGED <<galleryImages, fallbackColor, readsStarted>>
    /\ UNCHANGED <<navVars, typeVars, detailVars, tierVars, envVars>>

galleryLoaded(index) ==
    /\ index \in DOMAIN readers
    /\ readers[index].role = "gallery"
    /\ galleryImages' = AppendImage(galleryImages, ImageOf("gallery-", readers[index].file, now))
    /\ readers' = WithoutReader(index)
    /\ rejected' = <<>>
    /\ lastOp' = [Op("galleryLoaded", index, readers[index].file) EXCEPT
                      !.p = IF readers[index].outlived THEN "after-reset" ELSE ""]
    /\ UNCHANGED <<thumbnailImage, fallbackColor, readsStarted>>
    /\ UNCHANGED <<navVars, typeVars, detailVars, tierVars, envVars>>

removeThumbnail == setThumbnailImage(<<>>)

\* Date.now() moves on
Tick ==
    /\ now < MaxClock
    /\ now' = now + 1
    /\ lastOp' = Op("tick", now + 1, "")
    /\ UNCHANGED <<sessionMarker, appPhase>>
    /\ UNCHANGED <<navVars, typeVars, detailVars, tierVars, imageVars, uploadVars>>

(***************************************************************************)
(* Tiers: the store's tier collection                                      *)
(***************************************************************************)
\* a Tier object; displayNameOverride and currency are the same in every tier the code builds
Tier(id, name, supersedeTier, bulletPoints, isPopular, billingType, hasPriceRange, priceFrom, priceTo, priceUnit, requestQuoteOnly) ==
    [id |-> id, name |-> name, displayNameOverride |-> "",
     supersedeTier |-> supersedeTier, bulletPoints |-> bulletPoints,
     isPopular |-> isPopular, billingType |-> billingType,
     hasPriceRange |-> hasPriceRange, priceFrom |-> priceFrom, priceTo |-> priceTo,
     currency |-> "NZD", priceUnit |-> priceUnit, requestQuoteOnly |-> requestQuoteOnly]

serviceTiers ==
    << Tier("starter", "Starter", "", <<"Basic features", "Email support">>,
            FALSE, "per-project", TRUE, 500, 1000, "Project", FALSE),
       Tier("professional", "Professional", "starter",
            <<"More AI Credits", "Integration for Salesforce and Quickbooks">>,
            TRUE, "monthly-retainer", TRUE, 1600, 2400, "Month", FALSE),
       Tier("enterprise", "Enterprise", "professional",
            <<"All features", "Priority support", "Custom integrations">>,
            FALSE, "monthly-retainer", FALSE, 5000, 5000, "Month", TRUE) >>

productTiers ==
    << Tier("base", "Base", "", <<"Standard features", "Basic support">>,
            FALSE, "fixed-price", FALSE, 550, 550, "", FALSE),
       Tier("advanced", "Advanced", "base",
            <<"Advanced features", "Premium support", "Extended warranty">>,
            TRUE, "fixed-price", FALSE, 950, 950, "", FALSE) >>

subscriptionTiers ==
    << Tier("starter", "Starter", "",
            <<"Essential features", "Email support", "Monthly billing">>,
            FALSE, "monthly-retainer", FALSE, 29, 29, "Month", FALSE),
       Tier("professional", "Professional", "starter",
            <<"All Starter features", "Priority support", "Advanced analytics",
              "Team collaboration">>,
            TRUE, "monthly-retainer", FALSE, 79, 79, "Month", FALSE),
       Tier("enterprise", "Enterprise", "professional",
            <<"All Professional features", "Dedicated account manager",
              "Custom integrations", "SLA guarantee">>,
            FALSE, "monthly-retainer", FALSE, 199, 199, "Month", FALSE) >>

\* `tier-${Date.now()}`
CustomTierId(time) == "tier-" \o ToString(time)

\* the tier ids the operations are called with: the template ids, the ids
\* addCustomTier can make, and one id no tier ever has
AbsentTierId == "tier-none"
TierIds ==
    {"starter", "professional", "enterprise", "base", "advanced", AbsentTierId}
        \cup {CustomTierId(time) : time \in 0..MaxClock}

TierIdsOf(tierSeq) == {tierSeq[i].id : i \in DOMAIN tierSeq}

\* the Tier addCustomTier builds
NewCustomTier(tierCount, offeringType, time) ==
    Tier(CustomTierId(time), "Tier " \o ToString(tierCount + 1), "", <<"">>, FALSE,
         IF offeringType = "product" THEN "fixed-price" ELSE "per-project",
         FALSE, 0, 0,
         IF offeringType = "product" THEN "" ELSE "Project",
         FALSE)

\* this.tiers().find(t => t.id === tierId) || null, after the !tierId test
GetSelectedTier(tierSeq, tierId) ==
    IF tierId = null \/ tierId = "" THEN <<>>
    ELSE LET hits == {i \in DOMAIN tierSeq : tierSeq[i].id = tierId}
         IN  IF hits = {} THEN <<>>
             ELSE <<tierSeq[CHOOSE i \in hits : \A j \in hits : i <= j]>>

\* a delete that also clears the supersedeTier of the tiers that named the deleted one
DeleteTierFromCascading(currentTiers, tierId) ==
    LET kept == SelectSeq(currentTiers, LAMBDA t : t.id # tierId)
    IN  [i \in DOMAIN kept |->
            IF kept[i].supersedeTier = tierId
            THEN [kept[i] EXCEPT !.supersedeTier = ""] ELSE kept[i]]

\* currentTiers.filter(t => t.id !== tierId)
DeleteTierFrom(currentTiers, tierId) ==
    SelectSeq(currentTiers, LAMBDA t : t.id # tierId)

\* deleteTier that always moves the selection to the first remaining tier
SelectionAfterDeleteAlways(selected, updatedTiers, tierId) ==
    IF Len(updatedTiers) > 0 THEN updatedTiers[1].id ELSE null

\* a deleteTier that reads the id of the first remaining tier without looking
\* whether there is one: undefined when none is left
SelectionAfterDeleteUnguarded(selected, updatedTiers, tierId) ==
    IF selected = tierId
    THEN IF Len(updatedTiers) > 0 THEN updatedTiers[1].id ELSE "undefined"
    ELSE selected

\* selectedTierId after deleteTier(tierId)
SelectionAfterDelete(selected, updatedTiers, tierId) ==
    IF selected = tierId
    THEN IF Len(updatedTiers) > 0 THEN updatedTiers[1].id ELSE null
    ELSE selected

\* an update that writes the property into every tier, whatever its id
UpdateTierPropertyEverywhere(allTiers, tierId, property, value) ==
    [i \in DOMAIN allTiers |-> [allTiers[i] EXCEPT ![property] = value]]

\* allTiers.map(tier => tier.id === tierId ? { ...tier, [property]: value } : tier)
UpdateTierPropertyIn(allTiers, tierId, property, value) ==
    [i \in DOMAIN allTiers |->
        IF allTiers[i].id = tierId
        THEN [allTiers[i] EXCEPT ![property] = value]
        ELSE allTiers[i]]

\* a move whose second splice overwrites the tier at toIndex instead of
\* inserting in front of it
ReorderSeqReplacing(currentTiers, fromIndex, toIndex) ==
    LET movedTier == currentTiers[fromIndex + 1]
        rest == [i \in 1..(Len(currentTiers) - 1) |->
                    IF i <= fromIndex THEN currentTiers[i] ELSE currentTiers[i + 1]]
    IN  IF toIndex >= Len(rest)
        THEN Append(rest, movedTier)
        ELSE [rest EXCEPT ![toIndex + 1] = movedTier]

\* a move that counts toIndex against the sequence before the removal
ReorderSeqBeforeRemoval(currentTiers, fromIndex, toIndex) ==
    LET movedTier == currentTiers[fromIndex + 1]
        rest == [i \in 1..(Len(currentTiers) - 1) |->
                    IF i <= fromIndex THEN currentTiers[i] ELSE currentTiers[i + 1]]
        at == IF toIndex > fromIndex THEN toIndex - 1 ELSE toIndex
    IN  [i \in 1..Len(currentTiers) |->
            IF i <= at THEN rest[i]
            ELSE IF i = at + 1 THEN movedTier
            ELSE rest[i - 1]]

\* splice(fromIndex, 1) then splice(toIndex, 0, movedTier), 0-based valid indices
ReorderSeq(currentTiers, fromIndex, toIndex) ==
    LET movedTier == currentTiers[fromIndex + 1]
        rest == [i \in 1..(Len(currentTiers) - 1) |->
                    IF i <= fromIndex THEN currentTiers[i] ELSE currentTiers[i + 1]]
        at == IF toIndex > Len(rest) THEN Len(rest) ELSE toIndex
    IN  [i \in 1..Len(currentTiers) |->
            IF i <= at THEN rest[i]
            ELSE IF i = at + 1 THEN movedTier
            ELSE rest[i - 1]]

\* a choice that never falls back on the suggestion
EffectiveOfferingTypeNoFallback == selectedOfferingType

\* this.selectedOfferingType() || this.suggestedOffering()
EffectiveOfferingType == 
    IF selectedOfferingType # null /\ selectedOfferingType # ""
    THEN selectedOfferingType ELSE suggestedOffering

\* an addTier that puts the new tier first
addTierAtFront(tier) ==
    /\ tiers' = <<tier>> \o tiers
    /\ selectedTierId' = tier.id

\* addTier: append, then select the new tier
addTier(tier) ==
    /\ tiers' = Append(tiers, tier)
    /\ selectedTierId' = tier.id

addCustomTier ==
    /\ Len(tiers) < MaxTiers
    /\ addTier(NewCustomTier(Len(tiers), selectedOfferingType, now))
    /\ lastOp' = Op("addCustomTier", Len(tiers), CustomTierId(now))
    /\ UNCHANGED <<navVars, typeVars, detailVars, imageVars, envVars, uploadVars>>

deleteTier(tierId) ==
    /\ tiers' = DeleteTierFrom(tiers, tierId)
    /\ selectedTierId' = SelectionAfterDelete(selectedTierId, DeleteTierFrom(tiers, tierId), tierId)
    /\ lastOp' = Op("deleteTier", IF selectedTierId = tierId THEN 1 ELSE 0, tierId)
    /\ UNCHANGED <<navVars, typeVars, detailVars, imageVars, envVars, uploadVars>>

selectTier(tierId) ==
    /\ selectedTierId' = tierId
    /\ lastOp' = Op("selectTier", 0, tierId)
    /\ UNCHANGED tiers
    /\ UNCHANGED <<navVars, typeVars, detailVars, imageVars, envVars, uploadVars>>

updateTierProperty(tierId, property, value) ==
    /\ tiers' = UpdateTierPropertyIn(tiers, tierId, property, value)
    /\ lastOp' = [Op("updateTierProperty", 0, tierId) EXCEPT !.p = property, !.v = ToString(value)]
    /\ UNCHANGED selectedTierId
    /\ UNCHANGED <<navVars, typeVars, detailVars, imageVars, envVars, uploadVars>>

reorderTiers(fromIndex, toIndex) ==
    /\ tiers' = ReorderSeq(tiers, fromIndex, toIndex)
    /\ lastOp' = Op("reorderTiers", fromIndex, ToString(toIndex))
    /\ UNCHANGED selectedTierId
    /\ UNCHANGED <<navVars, typeVars, detailVars, imageVars, envVars, uploadVars>>

\* a useRecommendedTiers that keeps the tiers already made and adds the template
useRecommendedTiersKeepingTiers ==
    /\ IF EffectiveOfferingType = "service"
       THEN tiers' = tiers \o serviceTiers /\ selectedTierId' = "professional"
       ELSE IF EffectiveOfferingType = "product"
       THEN tiers' = tiers \o productTiers /\ selectedTierId' = "base"
       ELSE IF EffectiveOfferingType = "subscription"
       THEN tiers' = tiers \o subscriptionTiers /\ selectedTierId' = "professional"
       ELSE UNCHANGED <<tiers, selectedTierId>>
    /\ lastOp' = Op("useRecommendedTiers", 0, EffectiveOfferingType)
    /\ UNCHANGED <<navVars, typeVars, detailVars, imageVars, envVars, uploadVars>>

useRecommendedTiers ==
    /\ IF EffectiveOfferingType = "service"
       THEN tiers' = serviceTiers /\ selectedTierId' = "professional"
       ELSE IF EffectiveOfferingType = "product"
       THEN tiers' = productTiers /\ selectedTierId' = "base"
       ELSE IF EffectiveOfferingType = "subscription"
       THEN tiers' = subscriptionTiers /\ selectedTierId' = "professional"
       ELSE UNCHANGED <<tiers, selectedTierId>>
    /\ lastOp' = Op("useRecommendedTiers", 0, EffectiveOfferingType)
    /\ UNCHANGED <<navVars, typeVars, detailVars, imageVars, envVars, uploadVars>>

(***************************************************************************)
(* Tiers component: operations on the selected tier                        *)
(***************************************************************************)
PriceInputs == {0, 500}

\* the price unit updateBillingType derives from the billing type
PriceUnitOf(billingType) ==
    IF billingType = "per-project" THEN "Project"
    ELSE IF billingType = "hourly" THEN "hr"
    ELSE IF billingType = "monthly-retainer" THEN "Month"
    ELSE ""

\* isBillingTypeAvailable: what the offering type permits
isBillingTypeAvailable(billingType) ==
    IF selectedOfferingType = "product"
    THEN billingType = "fixed-price"
    ELSE billingType # "fixed-price"

selectedTier == GetSelectedTier(tiers, selectedTierId)

deleteCurrentTier ==
    /\ IF selectedTier # <<>>
       THEN /\ tiers' = DeleteTierFrom(tiers, selectedTier[1].id)
            /\ selectedTierId' = SelectionAfterDelete(selectedTierId,
                    DeleteTierFrom(tiers, selectedTier[1].id), selectedTier[1].id)
       ELSE UNCHANGED <<tiers, selectedTierId>>
    /\ lastOp' = Op("deleteCurrentTier", 0, selectedTierId)
    /\ UNCHANGED <<navVars, typeVars, detailVars, imageVars, envVars, uploadVars>>

\* an updateBillingType that writes the billing type and leaves the price unit
updateBillingTypeKeepingUnit(billingType) ==
    /\ IF selectedTier # <<>>
       THEN tiers' = UpdateTierPropertyIn(tiers, selectedTier[1].id, "billingType", billingType)
       ELSE UNCHANGED tiers
    /\ lastOp' = Op("updateBillingType", 0, billingType)
    /\ UNCHANGED selectedTierId
    /\ UNCHANGED <<navVars, typeVars, detailVars, imageVars, envVars, uploadVars>>

\* onDrop(event, dropIndex) after onDragStart(event, tierId, draggedIndex) on a
\* listed tier: reorderTiers unless the tier is dropped where it was
onDrop(draggedIndex, dropIndex) ==
    /\ IF draggedIndex # dropIndex
       THEN tiers' = ReorderSeq(tiers, draggedIndex, dropIndex)
       ELSE UNCHANGED tiers
    /\ lastOp' = Op("onDrop", draggedIndex, ToString(dropIndex))
    /\ UNCHANGED selectedTierId
    /\ UNCHANGED <<navVars, typeVars, detailVars, imageVars, envVars, uploadVars>>

updateBillingType(billingType) ==
    /\ IF selectedTier # <<>>
       THEN tiers' = UpdateTierPropertyIn(
                        UpdateTierPropertyIn(tiers, selectedTier[1].id, "billingType", billingType),
                        selectedTier[1].id, "priceUnit", PriceUnitOf(billingType))
       ELSE UNCHANGED tiers
    /\ lastOp' = Op("updateBillingType", 0, billingType)
    /\ UNCHANGED selectedTierId
    /\ UNCHANGED <<navVars, typeVars, detailVars, imageVars, envVars, uploadVars>>

updatePriceFrom(price) ==
    /\ IF selectedTier # <<>>
       THEN tiers' = UpdateTierPropertyIn(tiers, selectedTier[1].id, "priceFrom", price)
       ELSE UNCHANGED tiers
    /\ lastOp' = Op("updatePriceFrom", price, "")
    /\ UNCHANGED selectedTierId
    /\ UNCHANGED <<navVars, typeVars, detailVars, imageVars, envVars, uploadVars>>

updatePriceTo(price) ==
    /\ IF selectedTier # <<>>
       THEN tiers' = UpdateTierPropertyIn(tiers, selectedTier[1].id, "priceTo", price)
       ELSE UNCHANGED tiers
    /\ lastOp' = Op("updatePriceTo", price, "")
    /\ UNCHANGED selectedTierId
    /\ UNCHANGED <<navVars, typeVars, detailVars, imageVars, envVars, uploadVars>>

toggleRequestQuote(requestQuoteOnly) ==
    /\ IF selectedTier # <<>>
       THEN tiers' =
              LET id == selectedTier[1].id
                  flagged == UpdateTierPropertyIn(tiers, id, "requestQuoteOnly", requestQuoteOnly)
              IN  IF requestQuoteOnly
                  THEN UpdateTierPropertyIn(
                          UpdateTierPropertyIn(flagged, id, "priceFrom", 0), id, "priceTo", 0)
                  ELSE flagged
       ELSE UNCHANGED tiers
    /\ lastOp' = Op("toggleRequestQuote", IF requestQuoteOnly THEN 1 ELSE 0, "")
    /\ UNCHANGED selectedTierId
    /\ UNCHANGED <<navVars, typeVars, detailVars, imageVars, envVars, uploadVars>>

(***************************************************************************)
(* App component: the price range of the preview card                      *)
(***************************************************************************)
\* prices.filter(p => p > 0)
PositiveOf(prices) == SelectSeq(prices, LAMBDA p : p > 0)

\* tiers.map(t => t.priceFrom)
PricesFrom(allTiers) == [i \in DOMAIN allTiers |-> allTiers[i].priceFrom]

\* tiers.flatMap(t => [t.priceFrom, t.priceTo])
PricesFromAndTo(allTiers) ==
    [k \in 1..(2 * Len(allTiers)) |->
        IF k % 2 = 1 THEN allTiers[(k + 1) \div 2].priceFrom
        ELSE allTiers[k \div 2].priceTo]

\* Math.min(...prices) and Math.max(...prices) of a non-empty list
RECURSIVE MathMin(_)
MathMin(prices) ==
    IF Len(prices) = 1 THEN prices[1]
    ELSE LET m == MathMin(Tail(prices))
         IN  IF prices[1] < m THEN prices[1] ELSE m

RECURSIVE MathMax(_)
MathMax(prices) ==
    IF Len(prices) = 1 THEN prices[1]
    ELSE LET m == MathMax(Tail(prices))
         IN  IF prices[1] > m THEN prices[1] ELSE m

\* tiers.some(t => t.requestQuoteOnly)
hasRequestQuoteOnly(allTiers) == \E i \in DOMAIN allTiers : allTiers[i].requestQuoteOnly

\* a lowest price that overlooks the request-quote tiers
getLowestPriceOfAllTiers(allTiers) ==
    IF Len(allTiers) = 0 THEN 0
    ELSE LET prices == PositiveOf(PricesFrom(allTiers))
         IN  IF Len(prices) > 0 THEN MathMin(prices) ELSE 0

getLowestPrice(allTiers) ==
    IF Len(allTiers) = 0 THEN 0
    ELSE IF hasRequestQuoteOnly(allTiers) THEN 0
    ELSE LET prices == PositiveOf(PricesFrom(allTiers))
         IN  IF Len(prices) > 0 THEN MathMin(prices) ELSE 0

getHighestPrice(allTiers) ==
    IF Len(allTiers) = 0 THEN 0
    ELSE IF hasRequestQuoteOnly(allTiers) THEN 0
    ELSE LET prices == PositiveOf(PricesFromAndTo(allTiers))
         IN  IF Len(prices) > 0 THEN MathMax(prices) ELSE 0

\* the preview card reads the two prices of the current tiers
showLowestPrice ==
    /\ lastOp' = Op("getLowestPrice", getLowestPrice(tiers), "")
    /\ UNCHANGED <<navVars, typeVars, detailVars, tierVars, imageVars, envVars, uploadVars>>

showHighestPrice ==
    /\ lastOp' = Op("getHighestPrice", getHighestPrice(tiers), "")
    /\ UNCHANGED <<navVars, typeVars, detailVars, tierVars, imageVars, envVars, uploadVars>>

(***************************************************************************)
(* Images component: the price range of the step-4 card                    *)
(***************************************************************************)
\* Images.getLowestPrice: no look at requestQuoteOnly
imagesGetLowestPrice(allTiers) ==
    IF Len(allTiers) = 0 THEN 0
    ELSE LET prices == PositiveOf(PricesFrom(allTiers))
         IN  IF Len(prices) > 0 THEN MathMin(prices) ELSE 0

\* a highest price taken over the priceTo values only
imagesGetHighestPriceOfPriceTo(allTiers) ==
    IF Len(allTiers) = 0 THEN 0
    ELSE LET prices == PositiveOf([i \in DOMAIN allTiers |-> allTiers[i].priceTo])
         IN  IF Len(prices) > 0 THEN MathMax(prices) ELSE 0

\* Images.getHighestPrice
imagesGetHighestPrice(allTiers) ==
    IF Len(allTiers) = 0 THEN 0
    ELSE LET prices == PositiveOf(PricesFromAndTo(allTiers))
         IN  IF Len(prices) > 0 THEN MathMax(prices) ELSE 0

\* the step-4 card reads the two prices of the current tiers
showImagesLowestPrice ==
    /\ lastOp' = Op("Images.getLowestPrice", imagesGetLowestPrice(tiers), "")
    /\ UNCHANGED <<navVars, typeVars, detailVars, tierVars, imageVars, envVars, uploadVars>>

showImagesHighestPrice ==
    /\ lastOp' = Op("Images.getHighestPrice", imagesGetHighestPrice(tiers), "")
    /\ UNCHANGED <<navVars, typeVars, detailVars, tierVars, imageVars, envVars, uploadVars>>

(***************************************************************************)
(* reset                                                                   *)
(***************************************************************************)
\* how many of the draft's fields differ from their initial values
DirtyFields ==
    Cardinality({f \in 1..13 :
        \/ f = 1 /\ currentStep # FIRST_STEP
        \/ f = 2 /\ \E i \in DOMAIN steps : steps[i].completed
        \/ f = 3 /\ selectedOfferingType # null
        \/ f = 4 /\ offeringName # ""
        \/ f = 5 /\ tagline # ""
        \/ f = 6 /\ offeringDescription # ""
        \/ f = 7 /\ keyFeatures # <<>>
        \/ f = 8 /\ tags # <<>>
        \/ f = 9 /\ tiers # <<>>
        \/ f = 10 /\ selectedTierId # null
        \/ f = 11 /\ thumbnailImage # <<>>
        \/ f = 12 /\ galleryImages # <<>>
        \/ f = 13 /\ fallbackColor # "burgundy"})

\* reset that forgets to put the step list back
resetKeepsSteps ==
    /\ currentStep' = FIRST_STEP
    /\ selectedOfferingType' = null
    /\ UNCHANGED <<steps, stepsShared>>
    /\ companyType' = "Consultancy"
    /\ selectedCategories' = <<"Law", "Notary", "Legal Services">>
    /\ suggestedOffering' = "service"
    /\ offeringName' = ""
    /\ tagline' = ""
    /\ keyFeatures' = <<>>
    /\ offeringDescription' = ""
    /\ tags' = <<>>
    /\ tiers' = <<>>
    /\ selectedTierId' = null
    /\ thumbnailImage' = <<>>
    /\ galleryImages' = <<>>
    /\ fallbackColor' = "burgundy"
    /\ rejected' = Written(rejected)
    /\ lastOp' = Op("reset", DirtyFields, "")
    /\ UNCHANGED <<INITIAL_STEPS, envVars, readers, readsStarted>>

\* the assignments of reset(); [...INITIAL_STEPS] is a new array of the
\* template's own step objects
ResetFields ==
    /\ currentStep' = FIRST_STEP
    /\ selectedOfferingType' = null
    /\ steps' = INITIAL_STEPS
    /\ stepsShared' = DOMAIN INITIAL_STEPS
    /\ companyType' = "Consultancy"
    /\ selectedCategories' = <<"Law", "Notary", "Legal Services">>
    /\ suggestedOffering' = "service"
    /\ offeringName' = ""
    /\ tagline' = ""
    /\ keyFeatures' = <<>>
    /\ offeringDescription' = ""
    /\ tags' = <<>>
    /\ tiers' = <<>>
    /\ selectedTierId' = null
    /\ thumbnailImage' = <<>>
    /\ galleryImages' = <<>>
    /\ fallbackColor' = "burgundy"
    /\ rejected' = Written(rejected)

\* the reads in flight, each marked as having seen a reset
Outlived(inFlight) == [i \in DOMAIN inFlight |-> [inFlight[i] EXCEPT !.outlived = TRUE]]

\* a reset that aborts the reads in flight
resetCancellingReads ==
    /\ ResetFields
    /\ readers' = <<>>
    /\ lastOp' = Op("reset", DirtyFields, "")
    /\ UNCHANGED <<INITIAL_STEPS, envVars, readsStarted>>

\* reset() does not know the readers: they stay in flight
reset ==
    /\ ResetFields
    /\ readers' = Outlived(readers)
    /\ lastOp' = Op("reset", DirtyFields, "")
    /\ UNCHANGED <<INITIAL_STEPS, envVars, readsStarted>>

(***************************************************************************)
(* App component: the session marker                                       *)
(***************************************************************************)
\* ngOnInit: reset() when sessionStorage has no marker, then set it; the
\* beforeunload listener is registered
ngOnInit ==
    /\ appPhase \in {"constructed", "reloaded"}
    /\ IF sessionMarker = null
       THEN /\ ResetFields
            /\ sessionMarker' = "active"
       ELSE UNCHANGED <<steps, stepsShared, currentStep, typeVars, detailVars, tierVars,
                        imageVars, rejected, sessionMarker>>
    /\ appPhase' = "running"
    /\ lastOp' = Op("ngOnInit", IF sessionMarker = null THEN 1 ELSE 0, appPhase)
    /\ UNCHANGED <<INITIAL_STEPS, now, readers, readsStarted>>

\* the beforeunload listener: sessionStorage.removeItem(sessionKey), the page goes
beforeunload ==
    /\ appPhase = "running"
    /\ sessionMarker' = null
    /\ appPhase' = "unloaded"
    /\ lastOp' = Op("beforeunload", 0, "")
    /\ UNCHANGED <<navVars, typeVars, detailVars, tierVars, imageVars, now, uploadVars>>

\* the page is loaded again in the same tab: a new store is constructed, the
\* reads of the old page are gone, sessionStorage is what it was
reload ==
    /\ appPhase = "unloaded"
    /\ appPhase' = "reloaded"
    /\ steps' = INITIAL_STEPS
    /\ stepsShared' = DOMAIN INITIAL_STEPS
    /\ currentStep' = FIRST_STEP
    /\ selectedOfferingType' = null
    /\ companyType' = "Consultancy"
    /\ selectedCategories' = <<"Law", "Notary", "Legal Services">>
    /\ suggestedOffering' = "service"
    /\ offeringName' = ""
    /\ tagline' = ""
    /\ keyFeatures' = <<>>
    /\ offeringDescription' = ""
    /\ tags' = <<>>
    /\ tiers' = <<>>
    /\ selectedTierId' = null
    /\ thumbnailImage' = <<>>
    /\ galleryImages' = <<>>
    /\ fallbackColor' = "burgundy"
    /\ readers' = <<>>
    /\ rejected' = <<>>
    /\ lastOp' = Op("reload", 0, sessionMarker)
    /\ UNCHANGED <<INITIAL_STEPS, now, sessionMarker, readsStarted>>

(***************************************************************************)
(* State after construction                                                *)
(***************************************************************************)
Init ==
    /\ INITIAL_STEPS = InitialSteps
    /\ steps = InitialSteps
    /\ stepsShared = DOMAIN InitialSteps
    /\ currentStep = FIRST_STEP
    /\ selectedOfferingType = null
    /\ companyType = "Consultancy"
    /\ selectedCategories = <<"Law", "Notary", "Legal Services">>
    /\ suggestedOffering = "service"
    /\ offeringName = ""
    /\ tagline = ""
    /\ keyFeatures = <<>>
    /\ offeringDescription = ""
    /\ tags = <<>>
    /\ tiers = <<>>
    /\ selectedTierId = null
    /\ thumbnailImage = <<>>
    /\ galleryImages = <<>>
    /\ fallbackColor = "burgundy"
    /\ now = 0
    /\ sessionMarker = null
    /\ appPhase = "constructed"
    /\ readers = <<>>
    /\ readsStarted = 0
    /\ rejected = <<>>
    /\ lastOp = Op("init", 0, "")

NextNav ==
    \/ \E stepNumber \in StepNumbers : setCurrentStep(stepNumber)
    \/ \E stepId \in StepNumbers : completeStep(stepId)
    \/ nextStep
    \/ previousStep
    \/ \E offeringType \in OfferingTypes \cup {null} : setOfferingType(offeringType)
    \/ reset

SpecNav == Init /\ [][NextNav]_vars

\* the store's tier collection, called with present and absent tier ids
NextTiers ==
    \/ addCustomTier
    \/ \E tierId \in TierIds : deleteTier(tierId)
    \/ \E tierId \in TierIds : selectTier(tierId)
    \/ \E fromIndex, toIndex \in 0..(Len(tiers) - 1) : reorderTiers(fromIndex, toIndex)
    \/ useRecommendedTiers
    \/ Tick
    \/ reset

SpecTiers == Init /\ [][NextTiers]_vars

\* the Tiers component choosing billing types while the offering type changes
NextBilling ==
    \/ \E offeringType \in OfferingTypes : setOfferingType(offeringType)
    \/ addCustomTier
    \/ \E tierId \in TierIdsOf(tiers) : selectTier(tierId)
    \/ \E billingType \in BillingTypes : updateBillingType(billingType)
    \/ useRecommendedTiers
    \/ deleteCurrentTier

SpecBilling == Init /\ [][NextBilling]_vars

\* every field of the draft is written, then reset
NextDraft ==
    \/ nextStep
    \/ \E offeringType \in OfferingTypes : setOfferingType(offeringType)
    \/ \E value \in TextValues : setOfferingName(value)
    \/ \E value \in TextValues : setTagline(value)
    \/ \E value \in TextValues : setOfferingDescription(value)
    \/ Len(keyFeatures) < MaxList /\ addKeyFeature
    \/ Len(tags) < MaxList /\ addTag
    \/ useRecommendedTiers
    \/ \E fileName \in FileNames : setThumbnailImage(<<ImageOf("thumbnail-", fileName, now)>>)
    \/ /\ Len(galleryImages) < MaxList
       /\ \E fileName \in FileNames : addGalleryImage(ImageOf("gallery-", fileName, now))
    \/ \E color \in {"burgundy", "orange"} : setFallbackColor(color)
    \/ reset

SpecDraft == Init /\ [][NextDraft]_vars

\* the template is asked for under every choice and suggestion of offering type
NextRecommend ==
    \/ \E offeringType \in OfferingTypes \cup {null} : setOfferingType(offeringType)
    \/ \E offeringType \in OfferingTypes \cup {null} : setSuggestedOffering(offeringType)
    \/ addCustomTier
    \/ useRecommendedTiers
    \/ reset

SpecRecommend == Init /\ [][NextRecommend]_vars

\* the Tiers component pricing the selected tier and toggling request-quote
NextQuote ==
    \/ addCustomTier
    \/ Tick
    \/ \E tierId \in TierIdsOf(tiers) : selectTier(tierId)
    \/ \E price \in PriceInputs : updatePriceFrom(price)
    \/ \E price \in PriceInputs : updatePriceTo(price)
    \/ \E requestQuoteOnly \in BOOLEAN : toggleRequestQuote(requestQuoteOnly)

SpecQuote == Init /\ [][NextQuote]_vars

\* the preview card is read while the tiers of a template are priced
NextPreview ==
    \/ useRecommendedTiers
    \/ \E tierId \in TierIdsOf(tiers) : selectTier(tierId)
    \/ \E price \in PriceInputs : updatePriceFrom(price)
    \/ \E price \in PriceInputs : updatePriceTo(price)
    \/ \E requestQuoteOnly \in BOOLEAN : toggleRequestQuote(requestQuoteOnly)
    \/ deleteCurrentTier
    \/ showLowestPrice
    \/ showHighestPrice
    \/ showImagesLowestPrice
    \/ showImagesHighestPrice

SpecPreview == Init /\ [][NextPreview]_vars

\* images are uploaded and removed while reads are in flight
NextImages ==
    \/ \E file \in Files : uploadThumbnail(file)
    \/ \E file \in Files : uploadGalleryImage(file)
    \/ \E index \in DOMAIN readers : thumbnailLoaded(index)
    \/ \E index \in DOMAIN readers : galleryLoaded(index)
    \/ removeThumbnail
    \/ \E index \in DOMAIN galleryImages : removeGalleryImage(galleryImages[index].id)
    \/ Tick
    \/ reset

SpecImages == Init /\ [][NextImages]_vars

\* the page is started, used, unloaded and loaded again in one tab
NextSession ==
    \/ ngOnInit
    \/ beforeunload
    \/ reload
    \/ appPhase = "running" /\ nextStep
    \/ appPhase = "running" /\ previousStep
    \/ appPhase = "running" /\ \E offeringType \in OfferingTypes : setOfferingType(offeringType)

SpecSession == Init /\ [][NextSession]_vars

\* key features and tags are added, edited and removed at every index
NextLists ==
    \/ Len(keyFeatures) < MaxItems /\ addKeyFeature
    \/ Len(tags) < MaxItems /\ addTag
    \/ \E featureIndex \in 0..(Len(keyFeatures) - 1) : updateKeyFeature(featureIndex, "Fast")
    \/ \E tagIndex \in 0..(Len(tags) - 1) : updateTag(tagIndex, "Law")
    \/ \E featureIndex \in (0 - 1)..Len(keyFeatures) : removeKeyFeature(featureIndex)
    \/ \E tagIndex \in (0 - 1)..Len(tags) : removeTag(tagIndex)

SpecLists == Init /\ [][NextLists]_vars

\* the wizard is walked with Next, Back and reset only; the offering type is
\* chosen on the way
NextWalk ==
    \/ nextStep
    \/ previousStep
    \/ reset
    \/ \E offeringType \in OfferingTypes : setOfferingType(offeringType)

SpecWalk == Init /\ [][NextWalk]_vars

\* step numbers below, inside and above the range, and an image id no image has
EdgeStepNumbers == {FIRST_STEP - StepMargin, TOTAL_STEPS, TOTAL_STEPS + StepMargin}
AbsentImageId == "gallery-none"

\* the store operations that take a step number, an id or an index, called with
\* arguments in and out of range
NextStore ==
    \/ \E stepNumber \in EdgeStepNumbers : setCurrentStep(stepNumber)
    \/ \E stepId \in EdgeStepNumbers : completeStep(stepId)
    \/ useRecommendedTiers
    \/ \E tierId \in TierIds : deleteTier(tierId)
    \/ \E tierId \in TierIds : selectTier(tierId)
    \/ \E tierId \in {"starter", AbsentTierId} : updateTierProperty(tierId, "isPopular", TRUE)
    \/ \E fromIndex, toIndex \in 0..(Len(tiers) - 1) : reorderTiers(fromIndex, toIndex)
    \/ /\ Len(galleryImages) < MaxList
       /\ \E fileName \in FileNames : addGalleryImage(ImageOf("gallery-", fileName, now))
    \/ \E imageId \in {ImageOf("gallery-", "", now).id, AbsentImageId} : removeGalleryImage(imageId)
    \/ reset

SpecStore == Init /\ [][NextStore]_vars

\* the Tiers component: its operations on the tier list, for every offering type
NextUnits ==
    \/ \E offeringType \in OfferingTypes : setOfferingType(offeringType)
    \/ addCustomTier
    \/ \E billingType \in BillingTypes : updateBillingType(billingType)
    \/ useRecommendedTiers
    \/ deleteCurrentTier
    \/ \E tierId \in TierIdsOf(tiers) : selectTier(tierId)
    \/ \E draggedIndex, dropIndex \in 0..(Len(tiers) - 1) : onDrop(draggedIndex, dropIndex)

SpecUnits == Init /\ [][NextUnits]_vars

\* tiers are edited through updateTierProperty, with present and absent ids
NextTierEdit ==
    \/ useRecommendedTiers
    \/ addCustomTier
    \/ \E tierId \in TierIdsOf(tiers) \cup {AbsentTierId} : deleteTier(tierId)
    \/ \E tierId \in TierIdsOf(tiers) \cup {AbsentTierId}, value \in {"", "starter"} :
            updateTierProperty(tierId, "supersedeTier", value)
    \/ \E tierId \in TierIdsOf(tiers) \cup {AbsentTierId} :
            updateTierProperty(tierId, "isPopular", TRUE)
    \/ \E tierId \in TierIdsOf(tiers) : selectTier(tierId)
    \/ \E fromIndex, toIndex \in 0..(Len(tiers) - 1) : reorderTiers(fromIndex, toIndex)
    \/ reset

SpecTierEdit == Init /\ [][NextTierEdit]_vars
(***************************************************************************)
(* Properties                                                              *)
(***************************************************************************)
\* the completed flag of the step whose id is stepId, in the step list allSteps
CompletedOf(allSteps, stepId) ==
    \E i \in DOMAIN allSteps : allSteps[i].id = stepId /\ allSteps[i].completed

StepIds == FIRST_STEP..TOTAL_STEPS

\* everything of the draft but currentStep
exceptCurrentStep ==
    <<INITIAL_STEPS, steps, stepsShared, typeVars, detailVars, tierVars, imageVars, envVars, uploadVars>>

\* C1: in every state reachable by setCurrentStep (any integer), nextStep,
\* previousStep, completeStep and reset, currentStep is an integer in 1..4.
C1_CurrentStepInRange ==
    /\ currentStep \in Int
    /\ FIRST_STEP <= currentStep
    /\ currentStep <= TOTAL_STEPS

\* setCurrentStep was called with a number above 4 while at the last step
C1_Witness ==
    /\ lastOp.op = "setCurrentStep"
    /\ lastOp.n > TOTAL_STEPS
    /\ currentStep = TOTAL_STEPS

\* C5: nextStep() at currentStep = k < 4 sets the completed flag of step k, sets
\* currentStep to k + 1 and leaves the other steps' completed flags as they were;
\* at currentStep = 4 it changes neither currentStep nor any completed flag.
C5_NextStep ==
    [][lastOp'.op = "nextStep" =>
        IF currentStep < TOTAL_STEPS
        THEN /\ currentStep' = currentStep + 1
             /\ CompletedOf(steps', currentStep)
             /\ \A id \in StepIds \ {currentStep} :
                    CompletedOf(steps', id) = CompletedOf(steps, id)
        ELSE /\ currentStep' = currentStep
             /\ \A id \in StepIds : CompletedOf(steps', id) = CompletedOf(steps, id)]_vars

\* nextStep was called at step 2 with step 1 not completed: step 2 is now
\* completed, step 1 still is not, and the wizard is at step 3
C5_Witness ==
    /\ lastOp.op = "nextStep"
    /\ lastOp.n = 2
    /\ currentStep = 3
    /\ CompletedOf(steps, 2)
    /\ ~CompletedOf(steps, 1)
    /\ ~CompletedOf(steps, 3)

\* C6: setCurrentStep(n) sets currentStep to n when 1 <= n <= 4 and leaves it
\* unchanged otherwise; in both cases no completed flag and no other field of
\* the draft changes.
C6_SetCurrentStep ==
    [][lastOp'.op = "setCurrentStep" =>
        /\ currentStep' =
              IF 1 <= lastOp'.n /\ lastOp'.n <= 4 THEN lastOp'.n ELSE currentStep
        /\ \A id \in StepIds : CompletedOf(steps', id) = CompletedOf(steps, id)
        /\ UNCHANGED exceptCurrentStep]_vars

\* setCurrentStep(0) was called at step 3, with step 1 completed, and the wizard
\* is still at step 3
C6_Witness ==
    /\ lastOp.op = "setCurrentStep"
    /\ lastOp.n = 0
    /\ currentStep = 3
    /\ CompletedOf(steps, 1)

\* C7: previousStep() at currentStep = 1 changes nothing; at currentStep = k > 1
\* it sets currentStep to k - 1; in every case every step's completed flag is
\* the same after the call as before it.
C7_PreviousStep ==
    [][lastOp'.op = "previousStep" =>
        /\ currentStep' = IF currentStep = 1 THEN 1 ELSE currentStep - 1
        /\ \A id \in StepIds : CompletedOf(steps', id) = CompletedOf(steps, id)
        /\ currentStep = 1 => UNCHANGED <<currentStep, exceptCurrentStep>>]_vars

\* previousStep was called at step 3 and led to step 2, which is still completed
C7_Witness ==
    /\ lastOp.op = "previousStep"
    /\ lastOp.n = 3
    /\ currentStep = 2
    /\ CompletedOf(steps, 2)
    /\ CompletedOf(steps, 1)

\* C8: reset() yields the initial draft from any reachable state: currentStep 1,
\* the four steps not completed, no offering type, no tiers, key features, tags
\* or gallery images, no selected tier, no thumbnail, empty name, tagline and
\* description, and the burgundy fallback colour.
C8_ResetYieldsInitialDraft ==
    lastOp.op = "reset" =>
        /\ currentStep = 1
        /\ Len(steps) = 4
        /\ \A id \in StepIds : \E i \in DOMAIN steps : steps[i].id = id
        /\ \A id \in StepIds : ~CompletedOf(steps, id)
        /\ selectedOfferingType = null
        /\ tiers = <<>>
        /\ keyFeatures = <<>>
        /\ tags = <<>>
        /\ galleryImages = <<>>
        /\ selectedTierId = null
        /\ thumbnailImage = <<>>
        /\ offeringName = ""
        /\ tagline = ""
        /\ offeringDescription = ""
        /\ fallbackColor = "burgundy"

\* reset was called in a state where all thirteen fields had left their
\* initial values
C8_Witness ==
    /\ lastOp.op = "reset"
    /\ lastOp.n = 13
    /\ currentStep = 1
    /\ tiers = <<>>

\* C2: in every reachable state selectedTierId is null or the id of a tier that
\* is in tiers, after any sequence of addTier, deleteTier, selectTier,
\* reorderTiers, useRecommendedTiers and reset.
C2_SelectedTierExists ==
    selectedTierId = null \/ selectedTierId \in TierIdsOf(tiers)

\* C3: in every reachable state every tier with requestQuoteOnly = true has
\* priceFrom = 0 and priceTo = 0.
C3_QuoteOnlyMeansZeroPrice ==
    \A i \in DOMAIN tiers :
        tiers[i].requestQuoteOnly => tiers[i].priceFrom = 0 /\ tiers[i].priceTo = 0

\* C4: in every reachable state the billing types agree with the offering type:
\* under 'product' every tier is 'fixed-price', otherwise no tier is.
C4_BillingMatchesOfferingType ==
    \A i \in DOMAIN tiers :
        IF selectedOfferingType = "product"
        THEN tiers[i].billingType = "fixed-price"
        ELSE tiers[i].billingType # "fixed-price"

\* C9: after addTier(t), tiers is the previous sequence with t appended,
\* selectedTierId = t.id and getSelectedTier() returns t; after a deleteTier(t.id)
\* that follows it, getSelectedTier() returns the first tier of the resulting
\* sequence, or none if that sequence is empty.
C9_AddThenDelete ==
    [][/\ lastOp'.op = "addCustomTier" =>
            LET t == NewCustomTier(Len(tiers), selectedOfferingType, now)
            IN  /\ tiers' = tiers \o <<t>>
                /\ selectedTierId' = t.id
                /\ GetSelectedTier(tiers', selectedTierId') = <<t>>
       /\ (lastOp.op = "addCustomTier" /\ lastOp'.op = "deleteTier" /\ lastOp'.s = lastOp.s) =>
            GetSelectedTier(tiers', selectedTierId') =
                IF tiers' = <<>> THEN <<>> ELSE <<tiers'[1]>>]_vars

\* C10: deleteTier(id) removes the tier with that id and keeps the remaining
\* tiers in their previous relative order; if selectedTierId was id it becomes
\* the id of the first remaining tier, or null when none remains; otherwise
\* selectedTierId is unchanged.
C10_DeleteTier ==
    [][lastOp'.op = "deleteTier" =>
        LET id == lastOp'.s
            keep == {i \in DOMAIN tiers : tiers[i].id # id}
        IN  /\ Len(tiers') = Cardinality(keep)
            /\ \A i \in keep : tiers'[Cardinality({j \in keep : j <= i})] = tiers[i]
            /\ selectedTierId' =
                  IF selectedTierId = id
                  THEN IF Len(tiers') = 0 THEN null ELSE tiers'[1].id
                  ELSE selectedTierId]_vars

\* the selected 'professional' tier of the service template was deleted: starter
\* and enterprise remain in that order and starter is selected
C10_Witness ==
    /\ lastOp.op = "deleteTier"
    /\ lastOp.s = "professional"
    /\ lastOp.n = 1
    /\ Len(tiers) = 2
    /\ tiers[1].id = "starter"
    /\ tiers[2].id = "enterprise"
    /\ selectedTierId = "starter"

\* C11: deleteTier(id) with an id that matches no tier is a no-op: tiers and
\* selectedTierId are the same afterwards as before, in every reachable state,
\* those where selectTier left selectedTierId on an id that is not in tiers included.
C11_DeleteMissingTierIsNoOp ==
    [][(lastOp'.op = "deleteTier" /\ lastOp'.s \notin TierIdsOf(tiers))
        => UNCHANGED <<tiers, selectedTierId>>]_vars

\* the tiers of tierSeq that are equal, field by field, to the tier t
CopiesOf(t, tierSeq) == Cardinality({i \in DOMAIN tierSeq : tierSeq[i] = t})

\* C12: deleteTier(id) changes no field of a surviving tier: a tier whose
\* supersedeTier is the deleted id keeps that value, which then names no tier;
\* and no later store operation changes a tier that stays in the collection,
\* except updateTierProperty called with that tier's id, useRecommendedTiers and reset.
C12_SurvivingTiersUntouched ==
    [][(lastOp'.op \notin {"useRecommendedTiers", "reset"})
        => \A i \in DOMAIN tiers :
              (lastOp'.op \in {"deleteTier", "updateTierProperty"} => tiers[i].id # lastOp'.s)
              => CopiesOf(tiers[i], tiers') >= CopiesOf(tiers[i], tiers)]_vars

\* a tier is left superseding the tier that deleteTier has just removed
C12_Witness ==
    /\ lastOp.op = "deleteTier"
    /\ lastOp.s \notin TierIdsOf(tiers)
    /\ \E i \in DOMAIN tiers : tiers[i].supersedeTier = lastOp.s

\* C13: updateTierProperty(id, property, value) sets exactly the named field of
\* the tier whose id is id; every other field of it, every other tier, the order
\* and length of tiers and selectedTierId are unchanged, and when no tier has
\* that id the whole state is unchanged.
C13_UpdateTierProperty ==
    [][lastOp'.op = "updateTierProperty"
        => /\ Len(tiers') = Len(tiers)
           /\ \A i \in DOMAIN tiers :
                 /\ DOMAIN tiers'[i] = DOMAIN tiers[i]
                 /\ \A field \in DOMAIN tiers[i] :
                       IF tiers[i].id = lastOp'.s /\ field = lastOp'.p
                       THEN ToString(tiers'[i][field]) = lastOp'.v
                       ELSE tiers'[i][field] = tiers[i][field]
           /\ UNCHANGED <<selectedTierId, navVars, typeVars, detailVars, imageVars>>
           /\ (lastOp'.s \notin TierIdsOf(tiers) => UNCHANGED tiers)]_vars

\* a tier other than the first has just been given a new supersedeTier next to
\* tiers with other ids
C13_Witness ==
    /\ lastOp.op = "updateTierProperty"
    /\ lastOp.p = "supersedeTier"
    /\ Len(tiers) >= 2
    /\ \E i, j \in DOMAIN tiers :
          /\ tiers[i].id = lastOp.s
          /\ tiers[j].id # lastOp.s
          /\ ToString(tiers[i].supersedeTier) = lastOp.v
          /\ ToString(tiers[j].supersedeTier) # lastOp.v

\* tierSeq without the element at the 0-based position index
WithoutIndex(tierSeq, index) ==
    SubSeq(tierSeq, 1, index) \o SubSeq(tierSeq, index + 2, Len(tierSeq))

\* C14: reorderTiers(fromIndex, toIndex) with valid indices takes the element at
\* fromIndex out and puts it back so that it is at position toIndex of the
\* result; the other elements keep their relative order. reorderTiers(0, 2)
\* on [A, B, C] gives [B, C, A].
C14_ReorderTiers ==
    [][lastOp'.op = "reorderTiers"
        => LET fromIndex == lastOp'.n
               toIndex == CHOOSE k \in 0..(Len(tiers) - 1) : ToString(k) = lastOp'.s
           IN  /\ Len(tiers') = Len(tiers)
               /\ tiers'[toIndex + 1] = tiers[fromIndex + 1]
               /\ WithoutIndex(tiers', toIndex) = WithoutIndex(tiers, fromIndex)
               /\ (fromIndex = 0 /\ toIndex = 2 /\ Len(tiers) = 3
                      => tiers' = <<tiers[2], tiers[3], tiers[1]>>)]_vars

\* reorderTiers(0, 2) has just moved Starter behind Professional and Enterprise
C14_Witness ==
    /\ lastOp.op = "reorderTiers"
    /\ lastOp.n = 0
    /\ lastOp.s = ToString(2)
    /\ [i \in DOMAIN tiers |-> tiers[i].id] = <<"professional", "enterprise", "starter">>

\* the names of the tiers, in order
TierNames == [i \in DOMAIN tiers |-> tiers[i].name]

\* C15: useRecommendedTiers() replaces the whole of tiers by the template of the
\* effective offering type: for product exactly [Base, Advanced], both
\* fixed-price, with 'base' selected; for service and subscription exactly
\* [Starter, Professional, Enterprise] with 'professional' selected. The first
\* tier supersedes nothing, every later tier supersedes the tier just before
\* it, so no supersedeTier of a template names a missing tier.
C15_RecommendedTemplates ==
    lastOp.op = "useRecommendedTiers"
    => LET effective == IF selectedOfferingType # null THEN selectedOfferingType
                        ELSE suggestedOffering
       IN  /\ effective = "product"
                => /\ TierNames = <<"Base", "Advanced">>
                   /\ \A i \in DOMAIN tiers : tiers[i].billingType = "fixed-price"
                   /\ selectedTierId = "base"
           /\ effective \in {"service", "subscription"}
                => /\ TierNames = <<"Starter", "Professional", "Enterprise">>
                   /\ selectedTierId = "professional"
           /\ effective \in OfferingTypes
                => /\ tiers[1].supersedeTier = ""
                   /\ \A i \in 2..Len(tiers) : tiers[i].supersedeTier = tiers[i - 1].id
                   /\ \A i \in DOMAIN tiers :
                         tiers[i].supersedeTier \in TierIdsOf(tiers) \cup {""}
                   /\ selectedTierId \in TierIdsOf(tiers)

\* the product template has just been loaded for a product offering
C15_Witness ==
    /\ lastOp.op = "useRecommendedTiers"
    /\ selectedOfferingType = "product"
    /\ TierNames = <<"Base", "Advanced">>
    /\ selectedTierId = "base"

\* C16: useRecommendedTiers() chooses its template by selectedOfferingType when
\* that is set and by suggestedOffering when it is not; when both are unset the
\* call leaves tiers and selectedTierId as they were.
C16_TemplateChoice ==
    [][lastOp'.op = "useRecommendedTiers"
        => LET chosen == IF selectedOfferingType # null THEN selectedOfferingType
                         ELSE suggestedOffering
           IN  /\ chosen = "service" => tiers' = serviceTiers
               /\ chosen = "product" => tiers' = productTiers
               /\ chosen = "subscription" => tiers' = subscriptionTiers
               /\ chosen = null => UNCHANGED <<tiers, selectedTierId>>]_vars

\* no type is selected and the suggested service template has been loaded
C16_Witness ==
    /\ lastOp.op = "useRecommendedTiers"
    /\ selectedOfferingType = null
    /\ suggestedOffering = "service"
    /\ tiers = serviceTiers

\* the position in tiers of the tier the component treats as selected
SelectedIndex ==
    CHOOSE i \in DOMAIN tiers :
        tiers[i].id = selectedTierId /\ \A j \in 1..(i - 1) : tiers[j].id # selectedTierId

\* C17: toggleRequestQuote(true) on the selected tier sets its requestQuoteOnly
\* to true and its priceFrom and priceTo to 0, whatever they were, and changes no
\* other tier; toggleRequestQuote(false) sets requestQuoteOnly to false and
\* leaves the prices as they are.
C17_ToggleRequestQuote ==
    [][(lastOp'.op = "toggleRequestQuote" /\ selectedTier # <<>>)
        => /\ Len(tiers') = Len(tiers)
           /\ tiers'[SelectedIndex] =
                 IF lastOp'.n = 1
                 THEN [tiers[SelectedIndex] EXCEPT
                          !.requestQuoteOnly = TRUE, !.priceFrom = 0, !.priceTo = 0]
                 ELSE [tiers[SelectedIndex] EXCEPT !.requestQuoteOnly = FALSE]
           /\ \A j \in DOMAIN tiers : j # SelectedIndex => tiers'[j] = tiers[j]]_vars

\* the priceFrom values above 0, and all priceFrom and priceTo values
PositiveFromPrices == {tiers[i].priceFrom : i \in DOMAIN tiers} \ {0}
AllPrices == {tiers[i].priceFrom : i \in DOMAIN tiers} \cup {tiers[i].priceTo : i \in DOMAIN tiers}
AnyQuoteOnly == \E i \in DOMAIN tiers : tiers[i].requestQuoteOnly

\* C18: for every tiers sequence the preview's lowest price is 0 if tiers is
\* empty, if any tier is request-quote-only, or if no tier has priceFrom > 0,
\* and otherwise the least positive priceFrom; the highest price is 0 if tiers
\* is empty, if any tier is request-quote-only, or if no price is positive, and
\* otherwise the greatest of all priceFrom and priceTo values.
C18_PreviewPriceRange ==
    /\ lastOp.op = "getLowestPrice"
         => lastOp.n = IF tiers = <<>> \/ AnyQuoteOnly \/ PositiveFromPrices = {} THEN 0
                       ELSE CHOOSE m \in PositiveFromPrices : \A q \in PositiveFromPrices : m <= q
    /\ lastOp.op = "getHighestPrice"
         => lastOp.n = IF tiers = <<>> \/ AnyQuoteOnly \/ AllPrices \subseteq {0} THEN 0
                       ELSE CHOOSE m \in AllPrices : \A q \in AllPrices : m >= q

\* no tier is quote-only and the lowest price shown is the least of several
\* positive priceFrom values
C18_Witness ==
    /\ lastOp.op = "getLowestPrice"
    /\ ~AnyQuoteOnly
    /\ Cardinality(PositiveFromPrices) >= 2
    /\ lastOp.n > 0

\* C19: when two valid image reads are in flight at once the outcome follows
\* the order of completion, not of initiation: thumbnailImage holds the image of
\* the read that completed last, galleryImages gets the images in the order the
\* reads completed, and the image of every completed read is there.
C19_CompletionOrder ==
    [][/\ lastOp'.op = "thumbnailLoaded"
          => /\ Len(thumbnailImage') = 1
             /\ thumbnailImage'[1].file = lastOp'.s
             /\ thumbnailImage'[1].url = "data:" \o lastOp'.s
             /\ galleryImages' = galleryImages
       /\ lastOp'.op = "galleryLoaded"
          => /\ Len(galleryImages') = Len(galleryImages) + 1
             /\ SubSeq(galleryImages', 1, Len(galleryImages)) = galleryImages
             /\ galleryImages'[Len(galleryImages')].file = lastOp'.s
             /\ galleryImages'[Len(galleryImages')].url = "data:" \o lastOp'.s
             /\ thumbnailImage' = thumbnailImage]_vars

\* two gallery reads were in flight and the one started second has finished
\* first: its image is in the gallery while the other read is still going on
C19_Witness ==
    /\ lastOp.op = "galleryLoaded"
    /\ lastOp.n = 2
    /\ Len(readers) = 1
    /\ readers[1].role = "gallery"
    /\ readers[1].file # lastOp.s
    /\ galleryImages # <<>>
    /\ galleryImages[Len(galleryImages)].file = lastOp.s

\* the MIME types the claim lists as accepted
AcceptedMimeTypes == {"image/png", "image/jpeg", "image/jpg", "image/webp"}

\* the step is an upload of a file of another type, and it changes nothing
RefusedUploadIsNoOp ==
    (lastOp'.op \in {"uploadThumbnail", "uploadGalleryImage"} /\ lastOp'.s \notin AcceptedMimeTypes)
        => UNCHANGED <<navVars, typeVars, detailVars, tierVars, imageVars, envVars, readers, readsStarted>>

\* the images the last refused upload was aimed at are as they were then
RefusedImagesKept ==
    /\ rejected[1].role = "thumbnail" => thumbnailImage = rejected[1].thumbnail
    /\ rejected[1].role = "gallery" => galleryImages = rejected[1].gallery

\* C20 as stated: an upload of a file whose MIME type is not image/png,
\* image/jpeg, image/jpg or image/webp starts no read and changes nothing:
\* thumbnailImage (thumbnail upload) and galleryImages (gallery upload) are the
\* same afterwards as before, at once and in every later state until a valid
\* upload completes.
C20_RefusedUploadChangesNothing ==
    [][RefusedUploadIsNoOp /\ (rejected' # <<>> => RefusedImagesKept')]_vars

\* C20 amended: the same, in every later state until a valid upload completes or
\* removeThumbnail, removeGalleryImage, reset or another write of the images is
\* called.
C20_RefusedUploadChangesNothingItself ==
    [][RefusedUploadIsNoOp
        /\ ((rejected' # <<>> /\ ~rejected'[1].written) => RefusedImagesKept')]_vars

\* a thumbnail is set, an image/gif has been refused as its replacement, and
\* time has passed since: the thumbnail is still the one from before
C20_Witness ==
    /\ rejected # <<>>
    /\ ~rejected[1].written
    /\ rejected[1].role = "thumbnail"
    /\ rejected[1].thumbnail # <<>>
    /\ thumbnailImage = rejected[1].thumbnail
    /\ lastOp.op = "tick"

\* C21: in every reachable state the ids of the images in galleryImages are
\* pairwise distinct, whatever the sequence and interleaving of gallery uploads
\* (id 'gallery-' plus the time at which the read completes) and
\* removeGalleryImage calls.
C21_GalleryIdsDistinct ==
    \A i, j \in DOMAIN galleryImages : galleryImages[i].id = galleryImages[j].id => i = j

\* C22: in every reachable state the ids of the tiers in tiers are pairwise
\* distinct, whatever the sequence of addCustomTier (id 'tier-' plus the current
\* time), addTier, deleteTier, updateTierProperty, reorderTiers and
\* useRecommendedTiers.
C22_TierIdsDistinct ==
    \A i, j \in DOMAIN tiers : tiers[i].id = tiers[j].id => i = j

\* C23: no sequence of store operations changes the initial step template: in
\* every reachable state it holds the four steps with ids 1..4, their original
\* labels and completed = false; the steps the store holds after reset() are a
\* copy that completeStep and nextStep can change without changing the template.
C23_TemplateNeverChanges ==
    /\ Len(INITIAL_STEPS) = 4
    /\ \A i \in 1..4 : INITIAL_STEPS[i].id = i /\ ~INITIAL_STEPS[i].completed
    /\ [i \in 1..4 |-> INITIAL_STEPS[i].label] = <<"Offering Type", "Details", "Tiers", "Images">>

\* completeStep has just marked a step whose object came from the template; the
\* other steps are still the template's own objects
C23_Witness ==
    /\ lastOp.op = "completeStep"
    /\ lastOp.n \in 1..4
    /\ steps[lastOp.n].completed
    /\ stepsShared = (1..4) \ {lastOp.n}
    /\ ~INITIAL_STEPS[lastOp.n].completed

\* C24: at application start reset() is called exactly when the session marker
\* is absent, and the marker is then set; a reload in the middle of a session
\* (the page is unloaded and started again in the same tab) finds the marker
\* present, so reset() is not called for it.
C24_SessionMarker ==
    [][lastOp'.op = "ngOnInit"
        => /\ (lastOp'.n = 1) <=> (sessionMarker = null)
           /\ sessionMarker' = "active"
           /\ appPhase = "reloaded" => (sessionMarker # null /\ lastOp'.n = 0)]_vars

\* list without the element at the 0-based position index, unchanged when the
\* index is not a position of the list
RemovedAt(list, index) ==
    IF index >= 0 /\ index < Len(list)
    THEN SubSeq(list, 1, index) \o SubSeq(list, index + 2, Len(list))
    ELSE list

\* C26: removeKeyFeature(i) and removeTag(i) remove exactly the element at
\* position i and keep all other elements in order when 0 <= i < length; when
\* i is out of range the sequence is unchanged.
C26_RemoveAtIndex ==
    [][/\ lastOp'.op = "removeKeyFeature"
          => keyFeatures' = RemovedAt(keyFeatures, lastOp'.n) /\ tags' = tags
       /\ lastOp'.op = "removeTag"
          => tags' = RemovedAt(tags, lastOp'.n) /\ keyFeatures' = keyFeatures]_vars

\* the middle one of three key features has just been removed; the two that are
\* left differ
C26_Witness ==
    /\ lastOp.op = "removeKeyFeature"
    /\ lastOp.n = 1
    /\ Len(keyFeatures) = 2
    /\ keyFeatures[1] # keyFeatures[2]

\* C27: a valid image read that is in flight when reset() is called is not
\* cancelled: its completion callback still runs after the reset and stores its
\* image, so thumbnailImage (or galleryImages) becomes non-empty after reset()
\* although no upload was initiated since the reset.
C27_ReadOutlivesReset ==
    [][/\ lastOp'.op = "reset"
          => /\ Len(readers') = Len(readers)
             /\ \A i \in DOMAIN readers :
                   readers'[i].role = readers[i].role /\ readers'[i].file = readers[i].file
       /\ (lastOp'.op = "thumbnailLoaded" /\ lastOp'.p = "after-reset")
          => thumbnailImage' # <<>> /\ thumbnailImage'[1].file = lastOp'.s
       /\ (lastOp'.op = "galleryLoaded" /\ lastOp'.p = "after-reset")
          => /\ galleryImages' # <<>>
             /\ galleryImages'[Len(galleryImages')].file = lastOp'.s]_vars

\* the only read ever started was in flight during a reset and has now stored
\* its thumbnail
C27_Witness ==
    /\ lastOp.op = "thumbnailLoaded"
    /\ lastOp.p = "after-reset"
    /\ readsStarted = 1
    /\ thumbnailImage # <<>>
    /\ thumbnailImage[1].file = lastOp.s

\* C28: in every state reachable from the initial state by nextStep,
\* previousStep and reset alone, every step with an id below currentStep is
\* completed, and step 4 is never completed.
C28_WalkedStepsCompleted ==
    /\ \A i \in DOMAIN steps : steps[i].id < currentStep => steps[i].completed
    /\ \A i \in DOMAIN steps : steps[i].id = TOTAL_STEPS => ~steps[i].completed

\* the wizard has been walked to the last step and nextStep called once more
C28_Witness ==
    /\ lastOp.op = "nextStep"
    /\ lastOp.n = TOTAL_STEPS
    /\ currentStep = TOTAL_STEPS
    /\ \A i \in DOMAIN steps : steps[i].completed <=> steps[i].id < TOTAL_STEPS

\* C29: the price range the Images step shows equals the price range the App
\* preview shows, for every tiers sequence, those with a request-quote-only
\* tier included.
C29_SamePriceRange ==
    /\ lastOp.op = "Images.getLowestPrice" => lastOp.n = getLowestPrice(tiers)
    /\ lastOp.op = "Images.getHighestPrice" => lastOp.n = getHighestPrice(tiers)

\* no tier has a negative price
PricesNonNegative == \A i \in DOMAIN tiers : tiers[i].priceFrom >= 0 /\ tiers[i].priceTo >= 0

\* C30: for every tiers sequence with non-negative prices the computed lowest
\* price is at most the computed highest price, in the App preview and in the
\* Images step, and both are 0 when tiers is empty.
C30_LowestAtMostHighest ==
    PricesNonNegative
    => /\ getLowestPrice(tiers) <= getHighestPrice(tiers)
       /\ imagesGetLowestPrice(tiers) <= imagesGetHighestPrice(tiers)
       /\ tiers = <<>>
            => /\ getLowestPrice(tiers) = 0 /\ getHighestPrice(tiers) = 0
               /\ imagesGetLowestPrice(tiers) = 0 /\ imagesGetHighestPrice(tiers) = 0

\* the highest price has just been shown for tiers whose lowest price is
\* positive and smaller, one of them with a priceTo of 0
C30_Witness ==
    /\ lastOp.op = "Images.getHighestPrice"
    /\ imagesGetLowestPrice(tiers) > 0
    /\ lastOp.n > imagesGetLowestPrice(tiers)
    /\ \E i \in DOMAIN tiers : tiers[i].priceFrom > 0 /\ tiers[i].priceTo = 0

\* the fields every tier has
TierFields ==
    {"id", "name", "displayNameOverride", "supersedeTier", "bulletPoints", "isPopular",
     "billingType", "hasPriceRange", "priceFrom", "priceTo", "priceUnit", "currency",
     "requestQuoteOnly"}

\* every signal of the store holds a value of its declared type
DefinedState ==
    /\ currentStep \in FIRST_STEP..TOTAL_STEPS
    /\ Len(steps) = TOTAL_STEPS
    /\ \A i \in DOMAIN steps : steps[i].id = i /\ steps[i].completed \in BOOLEAN
    /\ selectedOfferingType \in OfferingTypes \cup {null}
    /\ \A i \in DOMAIN tiers :
          /\ DOMAIN tiers[i] = TierFields
          /\ tiers[i].id \in TierIds
          /\ tiers[i].isPopular \in BOOLEAN
          /\ tiers[i].requestQuoteOnly \in BOOLEAN
          /\ tiers[i].priceFrom \in Nat /\ tiers[i].priceTo \in Nat
          /\ tiers[i].billingType \in BillingTypes
    /\ selectedTierId \in TierIds \cup {null}
    /\ Len(thumbnailImage) <= 1
    /\ \A i \in DOMAIN galleryImages : DOMAIN galleryImages[i] = {"id", "url", "file"}
    /\ fallbackColor \in FallbackColors

\* every store operation can be called in the current state, with every argument
StoreCallsComplete ==
    /\ \A stepNumber \in StepNumbers :
          ENABLED setCurrentStep(stepNumber) /\ ENABLED completeStep(stepNumber)
    /\ ENABLED nextStep /\ ENABLED previousStep /\ ENABLED reset
    /\ ENABLED useRecommendedTiers
    /\ \A tierId \in TierIds :
          /\ ENABLED deleteTier(tierId)
          /\ ENABLED selectTier(tierId)
          /\ ENABLED updateTierProperty(tierId, "isPopular", TRUE)
    /\ \A fromIndex, toIndex \in 0..(Len(tiers) - 1) : ENABLED reorderTiers(fromIndex, toIndex)
    /\ \A imageId \in {ImageOf("gallery-", "", now).id, AbsentImageId} :
          ENABLED removeGalleryImage(imageId)

\* C25: no store operation ever raises: in every reachable state, for every
\* argument the operations allow (any integer step number, any step id, any
\* tier id present or absent, any gallery image id, valid reorder indices), the
\* call completes and ends in a defined state.
C25_NoOperationRaises == DefinedState /\ StoreCallsComplete

\* deleteTier has been called with the selected id of a tier that is not there,
\* on empty tiers, and the selection is null
C25_Witness ==
    /\ lastOp.op = "deleteTier"
    /\ lastOp.n = 1
    /\ tiers = <<>>
    /\ selectedTierId = null

\* C31: in every state reached through the Tiers component's operations
\* (addCustomTier, updateBillingType, useRecommendedStructure, deleteCurrentTier,
\* selectTier, onDrop), each tier's priceUnit is the one that belongs to its
\* billingType: 'Project' for per-project, 'hr' for hourly, 'Month' for
\* monthly-retainer and the empty string for fixed-price.
C31_PriceUnitOfBillingType ==
    \A i \in DOMAIN tiers :
        /\ tiers[i].billingType = "per-project" => tiers[i].priceUnit = "Project"
        /\ tiers[i].billingType = "hourly" => tiers[i].priceUnit = "hr"
        /\ tiers[i].billingType = "monthly-retainer" => tiers[i].priceUnit = "Month"
        /\ tiers[i].billingType = "fixed-price" => tiers[i].priceUnit = ""

\* updateBillingType('hourly') has just changed the selected tier, whose unit
\* was another one before, next to a tier that bills otherwise
C31_Witness ==
    /\ lastOp.op = "updateBillingType"
    /\ lastOp.s = "hourly"
    /\ \E i, j \in DOMAIN tiers :
          /\ tiers[i].id = selectedTierId
          /\ tiers[i].billingType = "hourly" /\ tiers[i].priceUnit = "hr"
          /\ tiers[j].billingType = "monthly-retainer" /\ tiers[j].priceUnit = "Month"

\* the one-to-one mappings of the positions of a sequence of length n
PositionPermutations(n) ==
    {perm \in [1..n -> 1..n] : \A i, j \in 1..n : perm[i] = perm[j] => i = j}

\* C32: for all valid indices, reorderTiers(fromIndex, toIndex) yields a
\* permutation of the previous tiers (same length, same tiers, none lost,
\* duplicated or replaced by an empty slot), leaves selectedTierId and every
\* tier's fields unchanged, and reorderTiers(toIndex, fromIndex) applied next
\* restores the previous order.
C32_ReorderIsPermutation ==
    [][lastOp'.op = "reorderTiers"
        => LET fromIndex == lastOp'.n
               toIndex == CHOOSE k \in 0..(Len(tiers) - 1) : ToString(k) = lastOp'.s
           IN  /\ Len(tiers') = Len(tiers)
               /\ \E perm \in PositionPermutations(Len(tiers)) :
                     \A i \in DOMAIN tiers : tiers'[i] = tiers[perm[i]]
               /\ \A i \in DOMAIN tiers' : DOMAIN tiers'[i] = TierFields
               /\ selectedTierId' = selectedTierId
               /\ ReorderSeq(tiers', toIndex, fromIndex) = tiers]_vars

\* reorderTiers(2, 0) has just brought Enterprise in front of Starter and
\* Professional, and Professional is still the selected tier
C32_Witness ==
    /\ lastOp.op = "reorderTiers"
    /\ lastOp.n = 2
    /\ lastOp.s = ToString(0)
    /\ [i \in DOMAIN tiers |-> tiers[i].id] = <<"enterprise", "starter", "professional">>
    /\ selectedTierId = "professional"

====
